---- MODULE Spec2Model ----
(***************************************************************************)
(* Model of the book recommender of Maven-Bookshelf-Challenge:             *)
(*   utils/recommend.py  get_recommendations, calculate_genre_similarity,  *)
(*                       calculate_genre_diversity_bonus,                  *)
(*                       select_diverse_recommendations                    *)
(*   project/app.py      the caller that owns the catalog and favorites    *)
(*   app.py              load_dataset_safe                                 *)
(*                                                                         *)
(* Conventions                                                             *)
(*   - a comma separated text column is the sequence of its raw tokens     *)
(*     (what str.split(',') returns, so "" is <<"">>); NaN in such a       *)
(*     column is the empty sequence, which split never returns;            *)
(*   - NaN in a numeric column is NULL;                                    *)
(*   - avg_rating is kept in tenths (42 is 4.2);                           *)
(*   - a work_id is [repr, val]: the string "7" is ["str", 7] and the      *)
(*     integer 7 is ["int", 7]; pandas never finds "7" equal to 7;         *)
(*   - scores are exact fractions: every candidate of one call shares the  *)
(*     denominator SCORE_UNIT * Denominator(profile, candidates).          *)
(***************************************************************************)
EXTENDS Integers, Sequences, FiniteSets, TLC

(***************************************************************************)
(* Bounds of the model.                                                    *)
(***************************************************************************)
MaxN == 3          \* top_n ranges over 1..MaxN
MaxFavs == 2       \* the caller's favorites list holds at most MaxFavs entries
MaxSalt == 1       \* the process hash salt ranges over 0..MaxSalt

(***************************************************************************)
(* Constants of the program.                                               *)
(***************************************************************************)
NULL == -1
MIN_RATINGS == 50          \* candidates['ratings_count'] >= 50
TOP_GENRES == 5            \* genre_counter.most_common(5)
TOP_AUTHORS == 3           \* author_preferences.most_common(3)
GENRE_SCORE_CAP == 3       \* min(score, 3)
POOL_FACTOR == 3           \* min(top_n * 3, 30)
POOL_MAX == 30
SEED_MOD == 1000           \* hash(str(favorite_ids)) % 1000
AUTHOR_CAP == 2            \* at most 2 selected books per author
GENRE_CAP_MIN == 2         \* max(2, top_n // 3)
GENRE_CAP_DIV == 3
DEFAULT_YEAR == 2000
DEFAULT_RATING == 40       \* 4.0, in tenths
YEAR_SPAN == 20            \* 1 - |x - avg_year| / 20
RATING_SPAN == 20          \* 2 - |x - avg_rating|, in tenths
SCORE_UNIT == 10000        \* final_score is kept in 1/10000
W_SIMILARITY == 3500       \* 0.35
W_GENRE == 2500            \* 0.25
W_RATING == 2000           \* 0.20
W_AUTHOR == 1000           \* 0.10
W_YEAR == 500              \* 0.05
W_DIVERSITY == 300         \* 0.03
W_GENRE_BONUS == 200       \* 0.02
SIMILARITY_SCORE == 3      \* isin(similar_ids) * 3
AUTHOR_SCORE == 15         \* isin(top_authors) * 1.5, in tenths
GENRE_BONUS == 3           \* len(new_related_genres) * 0.3, in tenths
TENTHS == 10               \* denominator of the sub-scores kept in tenths
HALVES == 2                \* diversity_bonus = (1 - popularity_norm) * 0.5

Min(a, b) == IF a <= b THEN a ELSE b
Max(a, b) == IF a >= b THEN a ELSE b
Abs(a) == IF a >= 0 THEN a ELSE 0 - a
Range(s) == {s[i] : i \in DOMAIN s}

RECURSIVE SumSeq(_)
SumSeq(s) == IF s = <<>> THEN 0 ELSE Head(s) + SumSeq(Tail(s))

RECURSIVE Concat(_)
Concat(ss) == IF ss = <<>> THEN <<>> ELSE Head(ss) \o Concat(Tail(ss))

SelectRows(s, Keep(_)) == Concat([i \in 1..Len(s) |-> IF Keep(s[i]) THEN <<s[i]>> ELSE <<>>])

(***************************************************************************)
(* Text.  strip().lower() of a genre token, strip() of a similar-books     *)
(* token, str.isdigit() and int().                                         *)
(***************************************************************************)
StripLower(tok) ==
    CASE tok = "Fantasy" -> "fantasy"
      [] tok = " adventure" -> "adventure"
      [] tok = " romance" -> "romance"
      [] tok = "Romance " -> "romance"
      [] tok = " " -> ""
      [] OTHER -> tok

Strip(tok) ==
    CASE tok = " 1" -> "1"
      [] tok = " 3" -> "3"
      [] tok = "5 " -> "5"
      [] tok = " " -> ""
      [] OTHER -> tok

\* str.isdigit() holds of "sup2" (the superscript two), of which int() raises ValueError
IntRaises(tok) == tok = "sup2"

DecimalValue ==
    ("1" :> 1) @@ ("2" :> 2) @@ ("3" :> 3) @@ ("4" :> 4) @@ ("5" :> 5)
    @@ ("6" :> 6) @@ ("7" :> 7) @@ ("8" :> 8) @@ ("9" :> 9)

IsDigit(tok) == tok \in DOMAIN DecimalValue \/ IntRaises(tok)

\* int(book_id), and Series.astype(int) on one value
AsInt(id) == [repr |-> "int", val |-> id.val]

(***************************************************************************)
(* The catalog.  The books a catalog is drawn from; a catalog is a         *)
(* subsequence of Library, so work_id is unique in it.                     *)
(***************************************************************************)
BookFields == {"work_id", "author", "genres", "original_publication_year",
               "avg_rating", "ratings_count", "similar_books"}

MkBook(id, author, genres, year, rating, count, similar) ==
    [work_id |-> [repr |-> "str", val |-> id], author |-> author, genres |-> genres,
     original_publication_year |-> year, avg_rating |-> rating,
     ratings_count |-> count, similar_books |-> similar]

Library ==
    << MkBook(4, "Tolkien", <<"Fantasy", " adventure">>, 1954, 44, 100, <<"2", " 3", "x9">>),
       MkBook(2, "Tolkien", <<"fantasy", "mythology">>, 1937, 42, 60, <<>>),
       MkBook(3, "Tolkien", <<"fantasy", " romance">>, NULL, 40, 50, <<" 1">>),
       MkBook(1, "Lewis", <<>>, 1950, 43, 80, <<"sup2", "4">>),
       MkBook(6, "Tolkien", <<"Romance ", " ", "mythology">>, 1977, 38, 10, <<>>),
       MkBook(5, "Lewis", <<"">>, 1955, NULL, 70, <<"5 ">>),
       MkBook(7, "Lewis", <<"mythology">>, 1956, 41, NULL, <<>>) >>

RECURSIVE SubSeqs(_)
SubSeqs(s) ==
    IF s = <<>> THEN {<<>>}
    ELSE LET rest == SubSeqs(Tail(s))
         IN rest \cup {<<Head(s)>> \o r : r \in rest}

Catalogs == SubSeqs(Library) \ {<<>>}

\* the same table with the work_id column held as integers
ConvertWorkIds(df) == [i \in 1..Len(df) |-> [df[i] EXCEPT !.work_id = AsInt(@)]]

\* an identifier of no book of Library
ABSENT_ID == Len(Library) + 2

\* identifiers a caller hands in as favorites: those of its catalog and one of no book
FavoriteIds(df) == {df[i].work_id.val : i \in DOMAIN df} \cup {ABSENT_ID}

(***************************************************************************)
(* collections.Counter: the keys in insertion order, each with its count.  *)
(***************************************************************************)
CounterAdd(c, k) ==
    IF \E i \in 1..Len(c) : c[i][1] = k
    THEN [i \in 1..Len(c) |-> IF c[i][1] = k THEN <<k, c[i][2] + 1>> ELSE c[i]]
    ELSE Append(c, <<k, 1>>)

RECURSIVE CounterUpdate(_, _)
CounterUpdate(c, ks) ==
    IF ks = <<>> THEN c ELSE CounterUpdate(CounterAdd(c, Head(ks)), Tail(ks))

CounterGet(c, k) ==
    IF \E i \in 1..Len(c) : c[i][1] = k
    THEN c[CHOOSE i \in 1..Len(c) : c[i][1] = k][2]
    ELSE 0

CounterKeys(c) == {c[i][1] : i \in 1..Len(c)}

\* max(genre_counter.values()); Python raises ValueError on an empty counter
MaxCount(c) == CHOOSE m \in {c[i][2] : i \in 1..Len(c)} :
                   \A i \in 1..Len(c) : c[i][2] <= m

\* the indices of keys in descending key order, equal keys in their original order
\* (sorted(..., reverse=True), nlargest(keep='first'), sort_values(ascending=False))
OrderDesc(keys) ==
    LET n == Len(keys)
        rank(i) == Cardinality({j \in 1..n : keys[j] > keys[i]
                                             \/ (keys[j] = keys[i] /\ j < i)}) + 1
    IN [p \in 1..n |-> CHOOSE i \in 1..n : rank(i) = p]

\* Counter.most_common(n): the keys only
MostCommon(c, n) ==
    LET ord == OrderDesc([i \in 1..Len(c) |-> c[i][2]])
    IN [p \in 1..Min(n, Len(c)) |-> c[ord[p]][1]]

(***************************************************************************)
(* 1. The preference profile of the favorites found in the catalog.        *)
(***************************************************************************)
GenreTokens(genres) == [i \in 1..Len(genres) |-> StripLower(genres[i])]

\* genre_counter after the loop over fav_books (a NaN genres field is skipped)
RECURSIVE GenreCounter(_, _)
GenreCounter(c, rows) ==
    IF rows = <<>> THEN c
    ELSE GenreCounter(IF Head(rows).genres # <<>>
                      THEN CounterUpdate(c, GenreTokens(Head(rows).genres))
                      ELSE c,
                      Tail(rows))

\* author_preferences after the loop (the catalog holds no NaN author: the loader
\* fills the column with '')
AuthorCounter(rows) == CounterUpdate(<<>>, [i \in 1..Len(rows) |-> rows[i].author])

NotNull(vals) == SelectRows(vals, LAMBDA v : v # NULL)

\* the similar_books field of one favorite: the identifiers it adds to similar_ids;
\* a ValueError of int() is swallowed by the bare except, and the field adds nothing
SimilarList(tokens) ==
    LET digits == SelectRows(tokens, LAMBDA x : IsDigit(Strip(x)))
    IN IF \E i \in 1..Len(digits) : IntRaises(Strip(digits[i]))
       THEN {}
       ELSE {[repr |-> "int", val |-> DecimalValue[Strip(digits[i])]] : i \in 1..Len(digits)}

SimilarIds(rows) ==
    UNION {SimilarList(rows[i].similar_books) : i \in {j \in 1..Len(rows) : rows[j].similar_books # <<>>}}

Profile(fav_books) ==
    LET genre_counter == GenreCounter(<<>>, fav_books)
        years == NotNull([i \in 1..Len(fav_books) |-> fav_books[i].original_publication_year])
        ratings == NotNull([i \in 1..Len(fav_books) |-> fav_books[i].avg_rating])
    IN [genre_counter |-> genre_counter,
        top_genres |-> MostCommon(genre_counter, TOP_GENRES),
        top_authors |-> Range(MostCommon(AuthorCounter(fav_books), TOP_AUTHORS)),
        \* avg_year_pref = year_sum / year_n, avg_rating_pref = rating_sum / rating_n
        year_sum |-> IF years # <<>> THEN SumSeq(years) ELSE DEFAULT_YEAR,
        year_n |-> IF years # <<>> THEN Len(years) ELSE 1,
        rating_sum |-> IF ratings # <<>> THEN SumSeq(ratings) ELSE DEFAULT_RATING,
        rating_n |-> IF ratings # <<>> THEN Len(ratings) ELSE 1,
        similar_ids |-> SimilarIds(fav_books)]

(***************************************************************************)
(* 4. The sub-scores.                                                      *)
(***************************************************************************)
\* the denominator of genre_score: max(genre_counter.values()), which the code
\* evaluates only for a token of user_top_genres
GenreDen(genre_counter) == IF genre_counter = <<>> THEN 1 ELSE MaxCount(genre_counter)

\* calculate_genre_similarity, as a numerator over GenreDen(genre_counter)
RECURSIVE GenreSum(_, _, _)
GenreSum(tokens, user_top_genres, genre_counter) ==
    IF tokens = <<>> THEN 0
    ELSE (IF Head(tokens) \in Range(user_top_genres)
          THEN GenreDen(genre_counter) + CounterGet(genre_counter, Head(tokens))
          ELSE 0)
         + GenreSum(Tail(tokens), user_top_genres, genre_counter)

\* mutant: the sum is returned without the cap
calculate_genre_similarity_uncapped(book_genres_str, user_top_genres, genre_counter) ==
    IF book_genres_str = <<"">> THEN 0
    ELSE GenreSum(GenreTokens(book_genres_str), user_top_genres, genre_counter)

calculate_genre_similarity(book_genres_str, user_top_genres, genre_counter) ==
    IF book_genres_str = <<"">> THEN 0
    ELSE Min(GenreSum(GenreTokens(book_genres_str), user_top_genres, genre_counter),
             GENRE_SCORE_CAP * GenreDen(genre_counter))

\* mutant: max(genre_counter.values()) is evaluated before the loop over the tokens
GenreSimilarityRaisesHoisted(book_genres_str, user_top_genres, genre_counter) ==
    book_genres_str # <<"">> /\ genre_counter = <<>>

\* calculate_genre_similarity raises ValueError: max() of the values of an empty
\* genre_counter, which the code evaluates for a token of user_top_genres only
GenreSimilarityRaises(book_genres_str, user_top_genres, genre_counter) ==
    /\ book_genres_str # <<"">>
    /\ \E i \in 1..Len(book_genres_str) :
           StripLower(book_genres_str[i]) \in Range(user_top_genres)
    /\ genre_counter = <<>>

genre_expansion(g) ==
    CASE g = "fantasy" -> {"science fiction", "mythology", "adventure"}
      [] g = "romance" -> {"contemporary", "historical fiction", "drama"}
      [] g = "mystery" -> {"thriller", "crime", "suspense"}
      [] g = "science fiction" -> {"fantasy", "dystopian", "adventure"}
      [] g = "historical fiction" -> {"biography", "war", "drama"}
      [] g = "young adult" -> {"coming of age", "contemporary", "fantasy"}
      [] OTHER -> {}

\* calculate_genre_diversity_bonus, in tenths
calculate_genre_diversity_bonus(book_genres_str, user_genre_set) ==
    IF book_genres_str = <<"">> THEN 0
    ELSE LET book_genres == Range(GenreTokens(book_genres_str))
             expanded_interests == user_genre_set \cup UNION {genre_expansion(g) : g \in user_genre_set}
             new_related_genres == (book_genres \cap expanded_interests) \ user_genre_set
         IN Cardinality(new_related_genres) * GENRE_BONUS

\* mutant: the gap is taken with its sign, 2 - (x - avg_rating_pref)
RatingScoreSigned(x, profile) ==
    Max(0, RATING_SPAN * profile.rating_n - (x * profile.rating_n - profile.rating_sum))

\* rating_score, as a numerator over TENTHS * rating_n
RatingScore(x, profile) ==
    Max(0, RATING_SPAN * profile.rating_n - Abs(x * profile.rating_n - profile.rating_sum))

\* year_score, as a numerator over YEAR_SPAN * year_n
YearScore(x, profile) ==
    IF x # NULL
    THEN Max(0, YEAR_SPAN * profile.year_n - Abs(x * profile.year_n - profile.year_sum))
    ELSE 0

\* MinMaxScaler: data_range, with a zero range replaced by 1
SetMin(S) == CHOOSE x \in S : \A y \in S : x <= y
SetMax(S) == CHOOSE x \in S : \A y \in S : x >= y
PopularityRange(candidates) ==
    LET counts == {candidates[i].ratings_count : i \in 1..Len(candidates)}
    IN IF SetMax(counts) = SetMin(counts) THEN 1 ELSE SetMax(counts) - SetMin(counts)

\* diversity_bonus = (1 - popularity_norm) * 0.5, as a numerator over
\* HALVES * PopularityRange(candidates)
DiversityBonus(count, candidates) ==
    LET counts == {candidates[i].ratings_count : i \in 1..Len(candidates)}
    IN PopularityRange(candidates) - (count - SetMin(counts))

(***************************************************************************)
(* 3-6. Candidates and their final_score.                                  *)
(***************************************************************************)
\* mutant: the favorite identifiers are used as given, not converted with int()
FavoriteIdListUnconverted(favorite_books_list) == favorite_books_list

\* favorite_ids = [int(book_id) for _, book_id in favorite_books_list]
FavoriteIdList(favorite_books_list) ==
    [i \in 1..Len(favorite_books_list) |-> AsInt(favorite_books_list[i])]

\* mutant: the rows are taken in the order of favorite_ids
FavBooksInListOrder(df, favorite_ids) ==
    Concat([i \in 1..Len(favorite_ids) |->
               SelectRows(df, LAMBDA b : b.work_id = favorite_ids[i])])

\* works_df[works_df['work_id'].isin(favorite_ids)]
FavBooks(df, favorite_ids) == SelectRows(df, LAMBDA b : b.work_id \in Range(favorite_ids))

\* mutant: the filter on ratings_count >= 50 is left out
CandidatesNoFloor(df, favorite_ids) ==
    LET kept == SelectRows(df, LAMBDA b : /\ b.work_id \notin Range(favorite_ids)
                                          /\ b.avg_rating # NULL
                                          /\ b.ratings_count # NULL)
    IN [i \in 1..Len(kept) |-> [kept[i] EXCEPT !.genres = IF @ = <<>> THEN <<"">> ELSE @]]

\* the candidates: not a favorite, rating and rating count known, rating count >= 50;
\* then genres.fillna('')
Candidates(df, favorite_ids) ==
    LET kept == SelectRows(df, LAMBDA b : /\ b.work_id \notin Range(favorite_ids)
                                          /\ b.avg_rating # NULL
                                          /\ b.ratings_count # NULL
                                          /\ b.ratings_count >= MIN_RATINGS)
    IN [i \in 1..Len(kept) |-> [kept[i] EXCEPT !.genres = IF @ = <<>> THEN <<"">> ELSE @]]

\* the denominator the scores of one call share
Denominator(profile, candidates) ==
    YEAR_SPAN * GenreDen(profile.genre_counter) * profile.rating_n * profile.year_n
              * PopularityRange(candidates)

SubScores(b, profile, candidates) ==
    [similarity_score |-> IF b.work_id \in profile.similar_ids THEN SIMILARITY_SCORE ELSE 0,
     genre_score |-> calculate_genre_similarity(b.genres, profile.top_genres, profile.genre_counter),
     author_score |-> IF b.author \in profile.top_authors THEN AUTHOR_SCORE ELSE 0,
     rating_score |-> RatingScore(b.avg_rating, profile),
     year_score |-> YearScore(b.original_publication_year, profile),
     diversity_bonus |-> DiversityBonus(b.ratings_count, candidates),
     diversity_genre_bonus |-> calculate_genre_diversity_bonus(b.genres, Range(profile.top_genres))]

\* mutant: the last term of the sum is left out
FinalScoreSixTerms(sc, profile, candidates) ==
    LET q == Denominator(profile, candidates)
    IN W_SIMILARITY * sc.similarity_score * q
       + W_GENRE * sc.genre_score * (q \div GenreDen(profile.genre_counter))
       + W_RATING * sc.rating_score * (q \div (TENTHS * profile.rating_n))
       + W_AUTHOR * sc.author_score * (q \div TENTHS)
       + W_YEAR * sc.year_score * (q \div (YEAR_SPAN * profile.year_n))
       + W_DIVERSITY * sc.diversity_bonus * (q \div (HALVES * PopularityRange(candidates)))

\* final_score, as a numerator over SCORE_UNIT * Denominator(profile, candidates)
FinalScore(sc, profile, candidates) ==
    LET q == Denominator(profile, candidates)
    IN W_SIMILARITY * sc.similarity_score * q
       + W_GENRE * sc.genre_score * (q \div GenreDen(profile.genre_counter))
       + W_RATING * sc.rating_score * (q \div (TENTHS * profile.rating_n))
       + W_AUTHOR * sc.author_score * (q \div TENTHS)
       + W_YEAR * sc.year_score * (q \div (YEAR_SPAN * profile.year_n))
       + W_DIVERSITY * sc.diversity_bonus * (q \div (HALVES * PopularityRange(candidates)))
       + W_GENRE_BONUS * sc.diversity_genre_bonus * (q \div TENTHS)

\* a row of the scored table: the book and its final_score
Scored(b, score) ==
    [work_id |-> b.work_id, author |-> b.author, genres |-> b.genres,
     original_publication_year |-> b.original_publication_year,
     avg_rating |-> b.avg_rating, ratings_count |-> b.ratings_count,
     similar_books |-> b.similar_books, final_score |-> score]

ScoredCandidates(candidates, profile) ==
    [i \in 1..Len(candidates) |->
        Scored(candidates[i],
               FinalScore(SubScores(candidates[i], profile, candidates), profile, candidates))]

\* the columns steps 4 to 6 add to the candidates, row by row
ScoreTable(candidates, profile) ==
    [i \in 1..Len(candidates) |->
        [work_id |-> candidates[i].work_id,
         avg_rating |-> candidates[i].avg_rating,
         scores |-> SubScores(candidates[i], profile, candidates),
         final_score |-> FinalScore(SubScores(candidates[i], profile, candidates),
                                    profile, candidates)]]

(***************************************************************************)
(* 7. The controlled randomization.                                        *)
(***************************************************************************)
\* mutant: every candidate is kept, in descending final_score
TopCandidatesUncut(scored, top_n) ==
    LET ord == OrderDesc([i \in 1..Len(scored) |-> scored[i].final_score])
    IN [p \in 1..Len(scored) |-> scored[ord[p]]]

\* candidates.nlargest(min(top_n * 3, 30), 'final_score')
TopCandidates(scored, top_n) ==
    LET ord == OrderDesc([i \in 1..Len(scored) |-> scored[i].final_score])
    IN [p \in 1..Min(Min(top_n * POOL_FACTOR, POOL_MAX), Len(scored)) |-> scored[ord[p]]]

\* hash(str(favorite_ids)): the hash of a string depends on the text, hence on the
\* order of the identifiers, and on the salt the interpreter drew when it started
RECURSIVE TextHash(_, _)
TextHash(ids, h) ==
    IF ids = <<>> THEN h ELSE TextHash(Tail(ids), (h * 31 + Head(ids).val) % 65521)

PyHash(favorite_ids, salt) == TextHash(favorite_ids, 7 + salt * 613)

SeedOf(favorite_ids, salt) == PyHash(favorite_ids, salt) % SEED_MOD

\* np.random.seed(s): the state of the global generator
Seeded(s) == [seed |-> s, pos |-> 0]

\* the i-th draw of np.random.normal(0, 0.1) after seed(s), in 1/SCORE_UNIT: a fixed
\* function of the seed and of the position in the stream
NoiseLevels == <<0, 700, -1200, 300, -400, 1600, -900, 1100, -200, 500, -1700>>
Gauss(seed, i) == NoiseLevels[((seed * 5 + i * i * 3 + i) % Len(NoiseLevels)) + 1]

\* mutant: the generator is not seeded, the draws continue its stream
SeedGeneratorSkipped(g, favorite_ids, salt) == g

\* np.random.seed(hash(str(favorite_ids)) % 1000), on the global generator g
SeedGenerator(g, favorite_ids, salt) == Seeded(SeedOf(favorite_ids, salt))

\* np.random.normal(0, 0.1, n) drawn from generator state g
Normal(g, n) == [i \in 1..n |-> Gauss(g.seed, g.pos + i)]
Advance(g, n) == [g EXCEPT !.pos = @ + n]

\* top_candidates['final_score'] += top_candidates['random_factor']
Perturb(top, random_factor, q) ==
    [i \in 1..Len(top) |-> [top[i] EXCEPT !.final_score = @ + random_factor[i] * q]]

(***************************************************************************)
(* 8. select_diverse_recommendations.  The walk keeps selected,            *)
(* used_authors and genre_count.                                           *)
(***************************************************************************)
\* sorted_candidates = candidates.sort_values('final_score', ascending=False)
SortedCandidates(candidates) ==
    LET ord == OrderDesc([i \in 1..Len(candidates) |-> candidates[i].final_score])
    IN [p \in 1..Len(candidates) |-> candidates[ord[p]]]

\* the first genre token that is not blank, lowercased, or 'unknown'
MainGenre(genres) ==
    LET book_genres == SelectRows(GenreTokens(genres), LAMBDA g : g # "")
    IN IF book_genres # <<>> THEN book_genres[1] ELSE "unknown"

GenreCap(top_n) == Max(GENRE_CAP_MIN, top_n \div GENRE_CAP_DIV)

EmptyWalk == [selected |-> <<>>, used_authors |-> {}, genre_count |-> <<>>]

AuthorCount(selected, author) ==
    Cardinality({i \in 1..Len(selected) : selected[i].author = author})

AuthorSaturated(w, book) ==
    book.author \in w.used_authors /\ AuthorCount(w.selected, book.author) >= AUTHOR_CAP

\* mutant: the genre test is > instead of >=
GenreSaturatedOffByOne(w, book, top_n) ==
    CounterGet(w.genre_count, MainGenre(book.genres)) > GenreCap(top_n)

GenreSaturated(w, book, top_n) ==
    CounterGet(w.genre_count, MainGenre(book.genres)) >= GenreCap(top_n)

\* the body of the first loop for one book (the loop's break is in FirstPass)
FirstPassStep(w, book, top_n) ==
    IF AuthorSaturated(w, book) THEN w
    ELSE IF GenreSaturated(w, book, top_n) THEN w
    ELSE [selected |-> Append(w.selected, book),
          used_authors |-> w.used_authors \cup {book.author},
          genre_count |-> CounterAdd(w.genre_count, MainGenre(book.genres))]

RECURSIVE FirstPass(_, _, _)
FirstPass(w, rows, top_n) ==
    IF rows = <<>> \/ Len(w.selected) >= top_n THEN w
    ELSE FirstPass(FirstPassStep(w, Head(rows), top_n), Tail(rows), top_n)

\* mutant: the second loop appends without looking at selected
BackfillStepAlways(w, book) == [w EXCEPT !.selected = Append(@, book)]

\* mutant: the second loop puts selected back in score order
BackfillStepResorted(w, book) ==
    IF ~ \E i \in 1..Len(w.selected) : w.selected[i].work_id = book.work_id
    THEN [w EXCEPT !.selected = SortedCandidates(Append(@, book))]
    ELSE w

\* mutant: the second loop appends nothing
BackfillStepNever(w, book) == w

\* the body of the second loop for one book
BackfillStep(w, book) ==
    IF ~ \E i \in 1..Len(w.selected) : w.selected[i].work_id = book.work_id
    THEN [w EXCEPT !.selected = Append(@, book)]
    ELSE w

RECURSIVE Backfill(_, _, _)
Backfill(w, rows, top_n) ==
    IF rows = <<>> \/ Len(w.selected) >= top_n THEN w
    ELSE Backfill(BackfillStep(w, Head(rows)), Tail(rows), top_n)

select_diverse_recommendations(candidates, top_n) ==
    LET sorted_candidates == SortedCandidates(candidates)
        first == FirstPass(EmptyWalk, sorted_candidates, top_n)
    IN IF Len(first.selected) < top_n
       THEN Backfill(first, sorted_candidates, top_n).selected
       ELSE first.selected

(***************************************************************************)
(* get_recommendations(favorite_books_list, works_df, top_n), called with  *)
(* the global generator in state g in a process whose hash salt is salt.   *)
(* It yields what it returns (rows) or that it raised, and what it leaves  *)
(* behind: the caller's table and the global generator.                    *)
(***************************************************************************)
\* mutant: the whole table instead of its head
HeadRowsAll(df, top_n) == df

\* works_df.head(top_n)
HeadRows(df, top_n) == SubSeq(df, 1, Min(top_n, Len(df)))

get_recommendations(favorite_books_list, works_df, top_n, g, salt) ==
    LET favorite_ids == FavoriteIdList(favorite_books_list)
        \* works_df['work_id'] = works_df['work_id'].astype(int), on the caller's table
        df == ConvertWorkIds(works_df)
        fav_books == FavBooks(df, favorite_ids)
        profile == Profile(fav_books)
        candidates == Candidates(df, favorite_ids)
        scored == ScoredCandidates(candidates, profile)
        top == TopCandidates(scored, top_n)
        seeded == SeedGenerator(g, favorite_ids, salt)
        top_candidates == Perturb(top, Normal(seeded, Len(top)),
                                  Denominator(profile, candidates))
    IN IF fav_books = <<>>
       THEN [branch |-> "fallback", raised |-> FALSE, rows |-> HeadRows(df, top_n),
             works_df |-> df, np_random |-> g,
             profile |-> <<>>, table |-> <<>>, seed |-> NULL]
       ELSE IF \/ \E i \in 1..Len(candidates) :
                    GenreSimilarityRaises(candidates[i].genres, profile.top_genres,
                                          profile.genre_counter)
               \* MinMaxScaler.fit_transform raises ValueError on a table of 0 rows
               \/ candidates = <<>>
       THEN [branch |-> "scored", raised |-> TRUE, rows |-> <<>>,
             works_df |-> df, np_random |-> g,
             profile |-> profile, table |-> <<>>, seed |-> NULL]
       ELSE [branch |-> "scored", raised |-> FALSE,
             rows |-> select_diverse_recommendations(top_candidates, top_n),
             works_df |-> df, np_random |-> Advance(seeded, Len(top)),
             profile |-> profile, table |-> ScoreTable(candidates, profile),
             seed |-> seeded.seed]

(***************************************************************************)
(* The caller.  It owns the catalog, the favorites list, the process (its  *)
(* hash salt and numpy's global generator), and keeps what its last calls  *)
(* of get_recommendations were given and gave back.                        *)
(***************************************************************************)
VARIABLES works_df, favorites, np_random, hash_salt, calls,
          walk,   \* a walk of select_diverse_recommendations, step by step
          gsim,   \* a candidate's genre string and its genre_score under one profile
          rsim,   \* a candidate's rating and its rating_score under one profile
          prof,   \* a favorites list and the preference profile drawn from it
          pool,   \* a scored table on its way through steps 7 and 8
          session, \* st.session_state of the Streamlit app
          load    \* a call of load_dataset_safe, step by step

callerVars == <<works_df, favorites, np_random, hash_salt, calls>>
vars == <<works_df, favorites, np_random, hash_salt, calls, walk, gsim, rsim, prof, pool, session,
          load>>

NoWalk == [pc |-> "none"]
NoGsim == [pc |-> "none"]
NoRsim == [pc |-> "none"]
NoProf == [pc |-> "none"]
NoPool == [pc |-> "none"]
NoSession == [pc |-> "none"]
NoLoad == [pc |-> "none"]

\* the generator before any np.random.seed: seeded by the system, outside 0..SEED_MOD-1
Unseeded == [seed |-> SEED_MOD, pos |-> 0]

\* the catalog holds work_id as the loader left it (strings) or as integers
Init ==
    /\ works_df \in Catalogs \cup {ConvertWorkIds(c) : c \in Catalogs}
    /\ favorites = <<>>
    /\ np_random = Unseeded
    /\ hash_salt \in 0..MaxSalt
    /\ calls = <<>>
    /\ walk = NoWalk
    /\ gsim = NoGsim
    /\ rsim = NoRsim /\ prof = NoProf /\ pool = NoPool /\ session = NoSession /\ load = NoLoad

\* st.session_state.favorites.append((book_title, book_id)): book_id is taken as the
\* work_id column holds it
AddFavorite(id) ==
    /\ calls = <<>>
    /\ Len(favorites) < MaxFavs
    /\ favorites' = Append(favorites, [repr |-> works_df[1].work_id.repr, val |-> id])
    /\ calls' = <<>>
    /\ UNCHANGED <<works_df, np_random, hash_salt, walk, gsim, rsim, prof, pool, session, load>>

\* st.session_state.favorites = []
ClearFavorites ==
    /\ calls = <<>>
    /\ favorites # <<>>
    /\ favorites' = <<>>
    /\ calls' = <<>>
    /\ UNCHANGED <<works_df, np_random, hash_salt, walk, gsim, rsim, prof, pool, session, load>>

\* what a call was given, what it computed on its way, and what it gave back
CallRecord(favorite_books_list, top_n, r) ==
    [favorites |-> favorite_books_list, top_n |-> top_n, works_df |-> works_df,
     np_random |-> np_random, branch |-> r.branch, raised |-> r.raised, rows |-> r.rows,
     profile |-> r.profile, table |-> r.table, seed |-> r.seed]

DoCall(favorite_books_list, top_n) ==
    LET r == get_recommendations(favorite_books_list, works_df, top_n, np_random, hash_salt)
    IN /\ works_df' = r.works_df
       /\ np_random' = r.np_random
       /\ calls' = Append(calls, CallRecord(favorite_books_list, top_n, r))
       /\ UNCHANGED <<favorites, hash_salt, walk, gsim, rsim, prof, pool, session, load>>

\* recommendations = get_recommendations(favorites, works, top_n)
Call(top_n) == calls = <<>> /\ DoCall(favorites, top_n)

\* the same call once more, nothing changed in between
CallAgain == Len(calls) = 1 /\ DoCall(favorites, calls[1].top_n)

\* the same list in another order
Reordered(favorite_books_list, p) ==
    [i \in 1..Len(favorite_books_list) |-> favorite_books_list[p[i]]]

\* the call once more with the same favorites handed in in another order
CallReordered ==
    /\ Len(calls) = 1
    /\ \E p \in Permutations(1..Len(favorites)) :
           /\ Reordered(favorites, p) # favorites
           /\ DoCall(Reordered(favorites, p), calls[1].top_n)

Next ==
    \/ \E id \in FavoriteIds(works_df) : AddFavorite(id)
    \/ ClearFavorites
    \/ \E top_n \in 1..MaxN : Call(top_n)
    \/ CallAgain
    \/ CallReordered

Spec == Init /\ [][Next]_vars

(***************************************************************************)
(* select_diverse_recommendations step by step: one action per iteration   *)
(* of its two loops, on a pool of scored candidates with distinct work_id. *)
(***************************************************************************)
MaxPool == 4       \* free rows of a pool
MaxSelN == 4       \* top_n ranges over 1..MaxSelN and BigN

\* the least top_n whose genre cap top_n // 3 exceeds 2
BigN == GENRE_CAP_DIV * (GENRE_CAP_MIN + 1)

PoolRow(id, author, genres, score) ==
    [work_id |-> [repr |-> "int", val |-> id], author |-> author, genres |-> genres,
     final_score |-> score]

\* what a free row of a pool may be: its author and its genres
RowKinds == {"Tolkien", "Lewis"} \X {<<"Fantasy", " romance">>, <<" ", "romance">>, <<"">>}

\* eight books of four other authors that fill the genre counts to 3, 3 and 2
BigPrefix ==
    << <<"Austen", <<"fantasy">>>>, <<"Austen", <<"fantasy">>>>, <<"Dumas", <<"fantasy">>>>,
       <<"Dumas", <<"romance">>>>, <<"Verne", <<"romance">>>>, <<"Verne", <<"romance">>>>,
       <<"Christie", <<"">>>>, <<"Christie", <<"">>>> >>

\* the final_score of row i: ascending with the row, or alternating
ScorePatterns == {"ascending", "alternating"}
PatternScore(pattern, i) == IF pattern = "ascending" THEN i ELSE i % 2

KindSeqs == UNION {[1..n -> RowKinds] : n \in 0..MaxPool}

Pools ==
    { [i \in 1..Len(kinds) |-> PoolRow(i, kinds[i][1], kinds[i][2], PatternScore(pattern, i))] :
        <<kinds, pattern>> \in {prefix \o tail : prefix \in {<<>>, BigPrefix}, tail \in KindSeqs}
                               \X ScorePatterns }

InitSelect ==
    /\ works_df = <<>> /\ favorites = <<>> /\ np_random = Unseeded /\ hash_salt = 0
    /\ calls = <<>> /\ gsim = NoGsim
    /\ rsim = NoRsim /\ prof = NoProf /\ pool = NoPool /\ session = NoSession /\ load = NoLoad
    /\ \E candidates \in Pools, top_n \in (1..MaxSelN) \cup {BigN} :
          walk = [pc |-> "sort", candidates |-> candidates, top_n |-> top_n,
                  sorted_candidates |-> <<>>, i |-> 0, backfilled |-> FALSE, first_n |-> 0,
                  selected |-> <<>>, used_authors |-> {}, genre_count |-> <<>>]

WalkState == [selected |-> walk.selected, used_authors |-> walk.used_authors,
              genre_count |-> walk.genre_count]

SetWalk(w, pc, i) ==
    [walk EXCEPT !.selected = w.selected, !.used_authors = w.used_authors,
                 !.genre_count = w.genre_count, !.pc = pc, !.i = i]

\* sorted_candidates = candidates.sort_values('final_score', ascending=False)
SortStep ==
    /\ walk.pc = "sort"
    /\ walk' = [walk EXCEPT !.sorted_candidates = SortedCandidates(walk.candidates),
                            !.pc = "first", !.i = 1]
    /\ UNCHANGED <<callerVars, gsim, rsim, prof, pool, session, load>>

\* one iteration of the first loop that does not break
FirstLoopBody ==
    /\ walk.pc = "first"
    /\ walk.i <= Len(walk.sorted_candidates)
    /\ Len(walk.selected) < walk.top_n
    /\ walk' = SetWalk(FirstPassStep(WalkState, walk.sorted_candidates[walk.i], walk.top_n),
                       "first", walk.i + 1)
    /\ UNCHANGED <<callerVars, gsim, rsim, prof, pool, session, load>>

\* the first loop ends (break, or no row left); then `if len(selected) < top_n`
FirstLoopExit ==
    /\ walk.pc = "first"
    /\ walk.i > Len(walk.sorted_candidates) \/ Len(walk.selected) >= walk.top_n
    /\ walk' = [walk EXCEPT !.pc = IF Len(walk.selected) < walk.top_n THEN "backfill" ELSE "done",
                            !.backfilled = Len(walk.selected) < walk.top_n,
                            !.first_n = Len(walk.selected),
                            !.i = 1]
    /\ UNCHANGED <<callerVars, gsim, rsim, prof, pool, session, load>>

\* one iteration of the second loop that does not break
BackfillBody ==
    /\ walk.pc = "backfill"
    /\ walk.i <= Len(walk.sorted_candidates)
    /\ Len(walk.selected) < walk.top_n
    /\ walk' = SetWalk(BackfillStep(WalkState, walk.sorted_candidates[walk.i]),
                       "backfill", walk.i + 1)
    /\ UNCHANGED <<callerVars, gsim, rsim, prof, pool, session, load>>

\* the second loop ends; return pd.DataFrame(selected)
BackfillExit ==
    /\ walk.pc = "backfill"
    /\ walk.i > Len(walk.sorted_candidates) \/ Len(walk.selected) >= walk.top_n
    /\ walk' = [walk EXCEPT !.pc = "done"]
    /\ UNCHANGED <<callerVars, gsim, rsim, prof, pool, session, load>>

NextSelect == SortStep \/ FirstLoopBody \/ FirstLoopExit \/ BackfillBody \/ BackfillExit

SpecSelect == InitSelect /\ [][NextSelect]_vars

(***************************************************************************)
(* calculate_genre_similarity under one profile: the profile is that of    *)
(* the favorites' genre strings, the candidate's genre string grows by one *)
(* token at a time.                                                        *)
(***************************************************************************)
MaxGenreFavs == 2      \* favorites the profile is drawn from
MaxTokens == 3         \* tokens of the candidate's genre string

\* the genres field of a favorite; <<>> is NaN
FavGenreStrings ==
    { <<"fantasy", " romance", "mystery">>, <<"Fantasy", "horror", "drama", "war">>,
      <<"">>, <<"Romance ", " ", "fantasy">>, <<>> }

CandidateTokens == {"Fantasy", " romance", "war", "crime", " ", ""}

GenreRows(strs) == [i \in 1..Len(strs) |-> [genres |-> strs[i]]]

GenreState(fav_genres, book_genres_str) ==
    LET genre_counter == GenreCounter(<<>>, GenreRows(fav_genres))
        top_genres == MostCommon(genre_counter, TOP_GENRES)
    IN [pc |-> "scored", fav_genres |-> fav_genres, genre_counter |-> genre_counter,
        top_genres |-> top_genres,
        book_genres_str |-> book_genres_str,
        raised |-> GenreSimilarityRaises(book_genres_str, top_genres, genre_counter),
        genre_score |-> calculate_genre_similarity(book_genres_str, top_genres, genre_counter)]

InitGenre ==
    /\ works_df = <<>> /\ favorites = <<>> /\ np_random = Unseeded /\ hash_salt = 0
    /\ calls = <<>> /\ walk = NoWalk
    /\ rsim = NoRsim /\ prof = NoProf /\ pool = NoPool /\ session = NoSession /\ load = NoLoad
    /\ \E strs \in UNION {[1..n -> FavGenreStrings] : n \in 0..MaxGenreFavs},
          tok \in CandidateTokens :
          gsim = GenreState(strs, <<tok>>)

\* the candidate's genre string gets one more token, and is scored again
AddGenreToken(tok) ==
    /\ Len(gsim.book_genres_str) < MaxTokens
    /\ gsim' = GenreState(gsim.fav_genres, Append(gsim.book_genres_str, tok))
    /\ UNCHANGED <<callerVars, walk, rsim, prof, pool, session, load>>

NextGenre == \E tok \in CandidateTokens : AddGenreToken(tok)

SpecGenre == InitGenre /\ [][NextGenre]_vars

(***************************************************************************)
(* rating_score under one profile: the profile is that of the favorites'   *)
(* ratings (NaN among them), the candidate's rating is drawn from the same *)
(* grid of tenths.                                                         *)
(***************************************************************************)
MaxRatingFavs == 2     \* favorites the mean rating is drawn from

\* avg_rating values, in tenths: 1.0 to 5.0
RatingGrid == {10, 20, 30, 35, 40, 45, 50}

RatingRows(ratings) ==
    [i \in 1..Len(ratings) |-> MkBook(i, "", <<>>, NULL, ratings[i], NULL, <<>>)]

InitRating ==
    /\ works_df = <<>> /\ favorites = <<>> /\ np_random = Unseeded /\ hash_salt = 0
    /\ calls = <<>> /\ walk = NoWalk /\ gsim = NoGsim
    /\ prof = NoProf /\ pool = NoPool /\ session = NoSession /\ load = NoLoad
    /\ \E ratings \in UNION {[1..n -> RatingGrid \cup {NULL}] : n \in 0..MaxRatingFavs} :
          rsim = [pc |-> "profile", ratings |-> ratings,
                  profile |-> Profile(RatingRows(ratings))]

\* candidates['avg_rating'].apply(lambda x: max(0, 2 - abs(x - avg_rating_pref))),
\* for one candidate
ScoreRating(x) ==
    /\ rsim.pc = "profile"
    /\ rsim' = [pc |-> "scored", ratings |-> rsim.ratings, profile |-> rsim.profile,
                x |-> x, rating_score |-> RatingScore(x, rsim.profile)]
    /\ UNCHANGED <<callerVars, walk, gsim, prof, pool, session, load>>

NextRating == \E x \in RatingGrid : ScoreRating(x)

SpecRating == InitRating /\ [][NextRating]_vars

(***************************************************************************)
(* The preference profile of a favorites list: the favorites are books of  *)
(* one catalog, handed in in any order.                                    *)
(***************************************************************************)
MaxProfFavs == 4       \* favorites the profile is drawn from

ProfileBook(id, author, genres) == MkBook(id, author, genres, NULL, NULL, NULL, <<>>)

ProfileCatalog ==
    ConvertWorkIds(
        << ProfileBook(1, "Tolkien", <<"fantasy", " romance", "mystery">>),
           ProfileBook(2, "Lewis", <<"Fantasy", "horror", "drama", "war">>),
           ProfileBook(3, "Austen", <<"Romance ", " ", "fantasy">>),
           ProfileBook(4, "Dumas", <<>>),
           ProfileBook(5, "Lewis", <<"">>) >>)

\* lists of distinct identifiers of the catalog
FavoriteLists ==
    {f \in UNION {[1..n -> {b.work_id : b \in Range(ProfileCatalog)}] :
                     n \in 1..Min(MaxProfFavs, Len(ProfileCatalog))} :
        \A i, j \in 1..Len(f) : i # j => f[i] # f[j]}

InitProfile ==
    /\ works_df = ProfileCatalog /\ np_random = Unseeded /\ hash_salt = 0
    /\ calls = <<>> /\ walk = NoWalk /\ gsim = NoGsim
    /\ rsim = NoRsim /\ pool = NoPool /\ session = NoSession /\ load = NoLoad
    /\ favorites \in FavoriteLists
    /\ prof = [pc |-> "favorites"]

\* lines 12 to 52 of get_recommendations
BuildProfile ==
    /\ prof.pc = "favorites"
    /\ prof' = [pc |-> "profile",
                profile |-> Profile(FavBooks(works_df, FavoriteIdList(favorites)))]
    /\ UNCHANGED <<callerVars, walk, gsim, rsim, pool, session, load>>

NextProfile == BuildProfile

SpecProfile == InitProfile /\ [][NextProfile]_vars

(***************************************************************************)
(* Steps 7 and 8 of get_recommendations on a scored table: nlargest, the   *)
(* seeded noise, the selection.  The tables go beyond 30 rows and top_n    *)
(* beyond 30.  Scores are in 1/SCORE_UNIT.                                 *)
(***************************************************************************)
MaxTable == 32         \* rows of the largest scored table
MaxTopN == 31          \* the largest top_n
MaxSeed == 2           \* the seed ranges over 0..MaxSeed

AuthorNames == <<"Tolkien", "Lewis", "Austen", "Dumas", "Verne", "Christie", "Woolf">>
GenreNames == << <<"fantasy">>, <<"romance", " drama">>, <<"">>, <<"mystery">>, <<"horror">> >>

TableSizes == {2, 7, MaxTable - 2, MaxTable}
TableTopNs == {1, 2, POOL_MAX \div POOL_FACTOR, POOL_MAX \div POOL_FACTOR + 1, MaxTopN}

\* the final_score of row i before the noise: falling, rising or the same for all rows
TablePatterns == {"falling", "rising", "flat"}
TableScore(pattern, i) ==
    CASE pattern = "falling" -> 3 * SCORE_UNIT - 100 * i
      [] pattern = "rising" -> SCORE_UNIT + 100 * i
      [] OTHER -> SCORE_UNIT

ScoredTable(n, pattern) ==
    [i \in 1..n |-> PoolRow(i, AuthorNames[(i % Len(AuthorNames)) + 1],
                            GenreNames[(i % Len(GenreNames)) + 1], TableScore(pattern, i))]

InitPool ==
    /\ works_df = <<>> /\ favorites = <<>> /\ np_random = Unseeded /\ hash_salt = 0
    /\ calls = <<>> /\ walk = NoWalk /\ gsim = NoGsim
    /\ rsim = NoRsim /\ prof = NoProf /\ session = NoSession /\ load = NoLoad
    /\ \E n \in TableSizes, pattern \in TablePatterns, top_n \in TableTopNs, seed \in 0..MaxSeed :
          pool = [pc |-> "scored", candidates |-> ScoredTable(n, pattern), top_n |-> top_n,
                  seed |-> seed, top |-> <<>>, top_candidates |-> <<>>, rows |-> <<>>]

\* top_candidates = candidates.nlargest(min(top_n * 3, 30), 'final_score')
RankStep ==
    /\ pool.pc = "scored"
    /\ pool' = [pool EXCEPT !.pc = "ranked", !.top = TopCandidates(pool.candidates, pool.top_n)]
    /\ UNCHANGED <<callerVars, walk, gsim, rsim, prof, session, load>>

\* np.random.seed(...); random_factor = np.random.normal(0, 0.1, len(top_candidates));
\* top_candidates['final_score'] += random_factor
NoiseStep ==
    /\ pool.pc = "ranked"
    /\ pool' = [pool EXCEPT !.pc = "perturbed",
                            !.top_candidates =
                                Perturb(pool.top, Normal(Seeded(pool.seed), Len(pool.top)), 1)]
    /\ UNCHANGED <<callerVars, walk, gsim, rsim, prof, session, load>>

\* recommendations = select_diverse_recommendations(top_candidates, top_n, top_genres)
SelectStep ==
    /\ pool.pc = "perturbed"
    /\ pool' = [pool EXCEPT !.pc = "selected",
                            !.rows = select_diverse_recommendations(pool.top_candidates,
                                                                    pool.top_n)]
    /\ UNCHANGED <<callerVars, walk, gsim, rsim, prof, session, load>>

NextPool == RankStep \/ NoiseStep \/ SelectStep

SpecPool == InitPool /\ [][NextPool]_vars

(***************************************************************************)
(* The Streamlit app (project/app.py): st.session_state and the buttons    *)
(* that change it.  The catalog is the cached table every rerun shares;    *)
(* an optional value is a sequence of at most one element (None is <<>>).  *)
(***************************************************************************)
MaxAppFavs == 2        \* the favorites list of the session holds at most MaxAppFavs books

DEFAULT_TOP_N == 10    \* get_recommendations(favorite_books_list, works_df, top_n=10)
DISPLAY_ROWS == 8      \* st.session_state.recommendations.head(8)
FAVORITES_SHOWN == 10  \* st.session_state.favorites[:10]

None == <<>>

InitApp ==
    /\ works_df = Library /\ favorites = <<>> /\ np_random = Unseeded
    /\ hash_salt \in 0..MaxSalt
    /\ calls = <<>> /\ walk = NoWalk /\ gsim = NoGsim
    /\ rsim = NoRsim /\ prof = NoProf /\ pool = NoPool /\ load = NoLoad
    /\ session = [recommendations |-> None, show_recommendations |-> FALSE]

\* tab1, "I Like it!" on a search result that is no favorite yet: the row's work_id is
\* a string in results searched before the first call and an integer after it
FavButton(book_id) ==
    /\ Len(favorites) < MaxAppFavs
    /\ \E i \in 1..Len(works_df) : works_df[i].work_id.val = book_id.val
    /\ \A i \in 1..Len(favorites) : favorites[i].val # book_id.val
    /\ book_id.repr \in {"str", works_df[1].work_id.repr}
    /\ favorites' = Append(favorites, book_id)
    /\ UNCHANGED <<works_df, np_random, hash_salt, calls, walk, gsim, rsim, prof, pool, session, load>>

\* tab2, "Generate Recommendations"; an exception of the call ends the script run
\* before the assignments
GenerateButton ==
    /\ Len(favorites) > 0
    /\ LET r == get_recommendations(favorites, works_df, DEFAULT_TOP_N, np_random, hash_salt)
       IN /\ works_df' = r.works_df
          /\ np_random' = r.np_random
          /\ session' = IF r.raised THEN session
                        ELSE [recommendations |-> <<r.rows>>, show_recommendations |-> TRUE]
    /\ UNCHANGED <<favorites, hash_salt, calls, walk, gsim, rsim, prof, pool, load>>

\* tab2, "New Recommendations"
NewButton ==
    /\ Len(favorites) > 0
    /\ session' = [recommendations |-> None, show_recommendations |-> FALSE]
    /\ UNCHANGED <<callerVars, walk, gsim, rsim, prof, pool, load>>

\* tab3, the remove button of the i-th favorite: list.remove drops the first equal entry
RemoveButton(i) ==
    /\ i \in 1..Min(Len(favorites), FAVORITES_SHOWN)
    /\ LET first == CHOOSE j \in 1..Len(favorites) :
                        /\ favorites[j] = favorites[i]
                        /\ \A k \in 1..(j - 1) : favorites[k] # favorites[i]
       IN favorites' = SubSeq(favorites, 1, first - 1)
                           \o SubSeq(favorites, first + 1, Len(favorites))
    /\ session' = [session EXCEPT !.show_recommendations = FALSE]
    /\ UNCHANGED <<works_df, np_random, hash_salt, calls, walk, gsim, rsim, prof, pool, load>>

\* tab3, "Clear All Favorites"
ClearButton ==
    /\ Len(favorites) > 0
    /\ favorites' = <<>>
    /\ session' = [session EXCEPT !.show_recommendations = FALSE]
    /\ UNCHANGED <<works_df, np_random, hash_salt, calls, walk, gsim, rsim, prof, pool, load>>

NextApp ==
    \/ \E val \in 1..Len(Library), repr \in {"str", "int"} :
           FavButton([repr |-> repr, val |-> val])
    \/ GenerateButton
    \/ NewButton
    \/ \E i \in 1..MaxAppFavs : RemoveButton(i)
    \/ ClearButton

SpecApp == InitApp /\ [][NextApp]_vars

(***************************************************************************)
(* load_dataset_safe(url, dataset_name, max_retries) of app.py, step by    *)
(* step: the loop test, the request, the parse, the exit after the loop.   *)
(* What the server answers is the environment's choice.  A response text   *)
(* is the sequence of its lines.                                           *)
(***************************************************************************)
MaxRetries == 3        \* max_retries ranges over 0..MaxRetries

BACKOFF_BASE == 2      \* time.sleep(2 ** attempt)
HTTP_OK == 200
HTTP_ERROR_MIN == 400  \* raise_for_status raises HTTPError for 400 <= status < 600

\* what requests.get gives: a response with a status and a text, or an exception
Answers ==
    {[kind |-> "response", status |-> st, text |-> tx] :
        st \in {HTTP_OK}, tx \in {<<>>, <<"work_id">>, <<"work_id", "1", "2">>, <<"\"work_id", "1">>}}
    \cup {[kind |-> "response", status |-> 503, text |-> <<"Service Unavailable">>],
          [kind |-> "Timeout", status |-> 0, text |-> <<>>],
          [kind |-> "ConnectionError", status |-> 0, text |-> <<>>],
          [kind |-> "MemoryError", status |-> 0, text |-> <<>>]}

\* the handler an exception of the try body is caught by: Timeout first, then
\* RequestException (ConnectionError and HTTPError are RequestExceptions),
\* then EmptyDataError, then Exception
HandlerOf(exception) ==
    CASE exception = "Timeout" -> "Timeout"
      [] exception \in {"ConnectionError", "HTTPError"} -> "RequestException"
      [] exception = "EmptyDataError" -> "EmptyDataError"
      [] OTHER -> "Exception"

\* pd.read_csv(StringIO(text)): no line is EmptyDataError, a quote left open is
\* ParserError, else the first line names the columns and the others are the rows
ReadCsv(text) ==
    IF text = <<>> THEN [raises |-> "EmptyDataError", df |-> <<>>]
    ELSE IF \E i \in 1..Len(text) : text[i] = "\"work_id"
    THEN [raises |-> "ParserError", df |-> <<>>]
    ELSE [raises |-> "", df |-> <<[columns |-> Head(text), rows |-> Tail(text)]>>]

\* pd.DataFrame()
EmptyFrame == [columns |-> "", rows |-> <<>>]

\* mutant: the handler sleeps after the last attempt too
SleepsAfterAlways(attempt, max_retries) == <<BACKOFF_BASE ^ attempt>>

\* if attempt < max_retries - 1: time.sleep(2 ** attempt)
SleepsAfter(attempt, max_retries) ==
    IF attempt < max_retries - 1 THEN <<BACKOFF_BASE ^ attempt>> ELSE <<>>

InitLoad ==
    /\ works_df = <<>> /\ favorites = <<>> /\ np_random = Unseeded /\ hash_salt = 0
    /\ calls = <<>> /\ walk = NoWalk /\ gsim = NoGsim
    /\ rsim = NoRsim /\ prof = NoProf /\ pool = NoPool /\ session = NoSession
    /\ \E max_retries \in 0..MaxRetries :
          load = [pc |-> "loop", max_retries |-> max_retries, attempt |-> 0, requests |-> 0,
                  text |-> <<>>, log |-> <<>>, slept |-> <<>>, result |-> <<>>]

\* an exception of the try body, caught by its handler: the two retrying handlers sleep
\* and continue, the two others break
Caught(exception, answer) ==
    LET handler == HandlerOf(exception)
        entry == [exception |-> exception, handler |-> handler, text |-> answer.text]
    IN IF handler \in {"Timeout", "RequestException"}
       THEN [load EXCEPT !.log = Append(@, entry),
                         !.slept = @ \o SleepsAfter(load.attempt, load.max_retries),
                         !.attempt = @ + 1, !.pc = "loop"]
       ELSE [load EXCEPT !.log = Append(@, entry), !.pc = "failed"]

\* for attempt in range(max_retries)
LoopTest ==
    /\ load.pc = "loop"
    /\ load' = [load EXCEPT !.pc = IF load.attempt < load.max_retries THEN "request"
                                   ELSE "failed"]
    /\ UNCHANGED <<callerVars, walk, gsim, rsim, prof, pool, session>>

\* response = requests.get(url, headers=headers, timeout=60); response.raise_for_status()
Request(answer) ==
    /\ load.pc = "request"
    /\ LET sent == [load EXCEPT !.requests = @ + 1]
       IN load' = IF answer.kind # "response"
                  THEN [Caught(answer.kind, answer) EXCEPT !.requests = sent.requests]
                  ELSE IF answer.status >= HTTP_ERROR_MIN
                  THEN [Caught("HTTPError", answer) EXCEPT !.requests = sent.requests]
                  ELSE [sent EXCEPT !.text = answer.text, !.pc = "parse"]
    /\ UNCHANGED <<callerVars, walk, gsim, rsim, prof, pool, session>>

\* df = pd.read_csv(StringIO(response.text)); return df
Parse ==
    /\ load.pc = "parse"
    /\ LET read == ReadCsv(load.text)
       IN load' = IF read.raises # ""
                  THEN Caught(read.raises, [text |-> load.text])
                  ELSE [load EXCEPT !.log = Append(@, [exception |-> "", handler |-> "",
                                                       text |-> load.text]),
                                    !.result = read.df, !.pc = "returned"]
    /\ UNCHANGED <<callerVars, walk, gsim, rsim, prof, pool, session>>

\* after the loop: st.error(...); return pd.DataFrame()
ReturnEmpty ==
    /\ load.pc = "failed"
    /\ load' = [load EXCEPT !.result = <<EmptyFrame>>, !.pc = "returned"]
    /\ UNCHANGED <<callerVars, walk, gsim, rsim, prof, pool, session>>

NextLoad == LoopTest \/ (\E answer \in Answers : Request(answer)) \/ Parse \/ ReturnEmpty

\* the function is one sequential run, and a request ends (answer or exception)
SpecLoad == InitLoad /\ [][NextLoad]_vars /\ WF_vars(NextLoad)

(***************************************************************************)
(* Properties of get_recommendations, stated on the calls the caller made. *)
(***************************************************************************)
\* at least one favorite identifier is that of a row of the catalog handed in
Resolves(c) ==
    \E i \in 1..Len(c.favorites), j \in 1..Len(c.works_df) :
        c.favorites[i].val = c.works_df[j].work_id.val

FavoriteVals(c) == {c.favorites[i].val : i \in 1..Len(c.favorites)}

\* returned row r is catalog row b: the same identifier and the same columns (the
\* scored branch returns a NaN genres field as '')
SameBook(r, b) ==
    /\ r.work_id.val = b.work_id.val
    /\ r.author = b.author
    /\ r.genres = b.genres \/ (b.genres = <<>> /\ r.genres = <<"">>)
    /\ r.original_publication_year = b.original_publication_year
    /\ r.avg_rating = b.avg_rating
    /\ r.ratings_count = b.ratings_count
    /\ r.similar_books = b.similar_books

BelowFloor(b) == b.ratings_count # NULL /\ b.ratings_count < MIN_RATINGS

\* the candidates that survive the filters of a call, by identifier
Survivors(c) ==
    {b.work_id.val : b \in {x \in Range(c.works_df) :
        /\ x.work_id.val \notin FavoriteVals(c)
        /\ x.avg_rating # NULL
        /\ x.ratings_count # NULL
        /\ ~ BelowFloor(x)}}

RowVals(c) == {c.rows[i].work_id.val : i \in 1..Len(c.rows)}

\* C1: every call that returns gives at most top_n books, each a row of the catalog
\* handed in, no two with the same identifier (scored branch, backfill and fallback).
C1_AtMostNDistinctCatalogRows ==
    \A k \in 1..Len(calls) :
        LET c == calls[k]
        IN ~ c.raised =>
              /\ Len(c.rows) <= c.top_n
              /\ \A i \in 1..Len(c.rows) : \E j \in 1..Len(c.works_df) :
                     SameBook(c.rows[i], c.works_df[j])
              /\ \A i, j \in 1..Len(c.rows) :
                     i # j => c.rows[i].work_id.val # c.rows[j].work_id.val

\* a scored call that needed the backfill: top_n books, three of them by one author
C1_Witness ==
    \E k \in 1..Len(calls) :
        LET c == calls[k]
        IN /\ ~ c.raised /\ Resolves(c)
           /\ Len(c.rows) = c.top_n
           /\ \E i \in 1..Len(c.rows) : AuthorCount(c.rows, c.rows[i].author) > AUTHOR_CAP

\* C2: no returned book has the identifier of a favorite, whether or not every
\* favorite is found in the catalog.
C2_NoFavoriteReturned ==
    \A k \in 1..Len(calls) : RowVals(calls[k]) \cap FavoriteVals(calls[k]) = {}

\* one favorite of the catalog and one of no book, and books are returned
C2_Witness ==
    \E k \in 1..Len(calls) :
        LET c == calls[k]
        IN /\ Resolves(c) /\ c.rows # <<>>
           /\ \E i \in 1..Len(c.favorites) :
                  c.favorites[i].val \notin {b.work_id.val : b \in Range(c.works_df)}
           /\ \E i \in 1..Len(c.favorites) : c.favorites[i].repr = "str"

\* C3 as claimed: no returned book has a rating count below 50, in any branch.
C3_NoBookBelowFloorAnyBranch ==
    \A k \in 1..Len(calls) : \A i \in 1..Len(calls[k].rows) : ~ BelowFloor(calls[k].rows[i])

\* C3 as amended: when a favorite is found in the catalog (scored ranking and
\* backfill), no returned book has a rating count below 50.
C3_NoBookBelowFloorWhenScored ==
    \A k \in 1..Len(calls) :
        Resolves(calls[k]) =>
            \A i \in 1..Len(calls[k].rows) : ~ BelowFloor(calls[k].rows[i])

\* a scored call that returned fewer than top_n books although the catalog holds a
\* book below the floor that is no favorite
C3_Witness ==
    \E k \in 1..Len(calls) :
        LET c == calls[k]
        IN /\ Resolves(c) /\ c.rows # <<>> /\ Len(c.rows) < c.top_n
           /\ \E b \in Range(c.works_df) : BelowFloor(b) /\ b.work_id.val \notin FavoriteVals(c)

\* C4: the same call made twice in a row gives the same books in the same order.
C4_SameCallSameResult ==
    Len(calls) = 2 /\ calls[2].favorites = calls[1].favorites =>
        /\ calls[2].raised = calls[1].raised
        /\ calls[2].rows = calls[1].rows

\* two scored calls of three books each; the first one rewrote the catalog and
\* seeded the generator, which the second one found
C4_Witness ==
    /\ Len(calls) = 2 /\ calls[2].favorites = calls[1].favorites
    /\ Resolves(calls[1]) /\ Len(calls[1].rows) = 3
    /\ calls[2].works_df # calls[1].works_df
    /\ calls[2].np_random # calls[1].np_random

\* C7 as claimed: when a favorite is found in the catalog and fewer than top_n
\* candidates survive the filters, the call does not raise and returns the survivors.
C7_ShortListNoRaise ==
    \A k \in 1..Len(calls) :
        LET c == calls[k]
        IN Resolves(c) /\ Cardinality(Survivors(c)) < c.top_n =>
              ~ c.raised /\ RowVals(c) = Survivors(c)

\* C8: when no favorite is found in the catalog the call returns the first
\* min(top_n, size) rows of the catalog in catalog order, draws no noise, does not raise.
C8_FallbackIsCatalogHead ==
    \A k \in 1..Len(calls) :
        LET c == calls[k]
        IN ~ Resolves(c) =>
              /\ ~ c.raised
              /\ Len(c.rows) = Min(c.top_n, Len(c.works_df))
              /\ \A i \in 1..Len(c.rows) :
                     /\ DOMAIN c.rows[i] = BookFields
                     /\ SameBook(c.rows[i], c.works_df[i])
                     /\ c.rows[i].genres = c.works_df[i].genres
              /\ k = Len(calls) => np_random = c.np_random

\* favorites that are found in no row, and a catalog longer than top_n
C8_Witness ==
    \E k \in 1..Len(calls) :
        LET c == calls[k]
        IN /\ ~ Resolves(c) /\ c.favorites # <<>>
           /\ Len(c.works_df) > c.top_n /\ Len(c.rows) = c.top_n
           /\ \E i \in 1..Len(c.rows) : BelowFloor(c.rows[i])

\* C9 as claimed: a call leaves the caller's catalog as it was (rows, columns,
\* identifier values and their representation) and changes no other state of the
\* caller, the global generator included.
C9_CallerStateUnchanged ==
    calls # <<>> =>
        /\ works_df = calls[Len(calls)].works_df
        /\ np_random = calls[Len(calls)].np_random

(***************************************************************************)
(* Properties of select_diverse_recommendations, stated on the walk.       *)
(***************************************************************************)
InWalk == walk.pc \in {"sort", "first", "backfill", "done"}

GenreCountOf(selected, g) ==
    Cardinality({i \in 1..Len(selected) : MainGenre(selected[i].genres) = g})

\* C5: as long as the backfill pass has not been entered, after every step of the
\* walk and in what is returned, there are at most 2 selected books by any one author
\* and at most max(2, top_n // 3) selected books of any one main genre.
C5_CapsHoldWithoutBackfill ==
    InWalk /\ ~ walk.backfilled =>
        \A i \in 1..Len(walk.selected) :
            /\ AuthorCount(walk.selected, walk.selected[i].author) <= 2
            /\ GenreCountOf(walk.selected, MainGenre(walk.selected[i].genres))
                   <= Max(2, walk.top_n \div 3)

\* the first pass alone returned top_n = 9 books, three of one main genre, after it
\* had skipped a book
C5_Witness ==
    /\ InWalk /\ walk.pc = "done" /\ ~ walk.backfilled
    /\ walk.top_n = BigN /\ Len(walk.selected) = BigN
    /\ \E i \in 1..Len(walk.selected) :
           GenreCountOf(walk.selected, MainGenre(walk.selected[i].genres)) = 3
    /\ \E i, j \in 1..Len(walk.sorted_candidates) :
           /\ walk.sorted_candidates[j] \notin Range(walk.selected)
           /\ walk.selected[Len(walk.selected)] = walk.sorted_candidates[i]
           /\ j < i

\* C6: the function returns exactly top_n books when the pool holds at least top_n
\* candidates, and every candidate of the pool when it holds fewer.
C6_BackfillCompletes ==
    InWalk /\ walk.pc = "done" =>
        /\ Len(walk.candidates) >= walk.top_n => Len(walk.selected) = walk.top_n
        /\ Len(walk.candidates) < walk.top_n =>
               /\ Len(walk.selected) = Len(walk.candidates)
               /\ Range(walk.selected) = Range(walk.candidates)

\* the backfill pass completed the list to top_n with a third book of one author
C6_Witness ==
    /\ InWalk /\ walk.pc = "done" /\ walk.backfilled
    /\ Len(walk.selected) = walk.top_n
    /\ Len(walk.candidates) > walk.top_n
    /\ \E i \in 1..Len(walk.selected) :
           AuthorCount(walk.selected, walk.selected[i].author) > AUTHOR_CAP

\* the scores of selected[from..to] never go up
Descending(selected, from, to) ==
    \A i, j \in from..to : i < j => selected[i].final_score >= selected[j].final_score

\* C15: selected only ever grows at its end (acceptance order, never re-sorted); in
\* what is returned the books the first pass accepted come first, in descending
\* perturbed final_score, then the books the backfill appended, in descending
\* perturbed final_score.
C15_AcceptanceOrder ==
    /\ [](InWalk /\ walk.pc = "done" =>
            /\ walk.first_n <= Len(walk.selected)
            /\ ~ walk.backfilled => walk.first_n = Len(walk.selected)
            /\ Descending(walk.selected, 1, walk.first_n)
            /\ Descending(walk.selected, walk.first_n + 1, Len(walk.selected)))
    /\ [][InWalk /\ walk.pc \in {"first", "backfill"} =>
             /\ Len(walk'.selected) >= Len(walk.selected)
             /\ SubSeq(walk'.selected, 1, Len(walk.selected)) = walk.selected]_vars

\* a book the backfill appended follows a book of the first pass with a lower score
C15_Witness ==
    /\ InWalk /\ walk.pc = "done" /\ walk.backfilled
    /\ \E i \in 1..walk.first_n, j \in (walk.first_n + 1)..Len(walk.selected) :
           walk.selected[j].final_score > walk.selected[i].final_score

(***************************************************************************)
(* Properties of calculate_genre_similarity.                               *)
(***************************************************************************)
\* C10: under a fixed profile genre_score never exceeds 3, is 0 for a candidate
\* with no token among the top genres, and never goes down when the candidate's
\* genre string gets one more token.
C10_GenreScoreCappedMonotone ==
    /\ [](gsim.pc = "scored" =>
            /\ gsim.genre_score <= 3 * GenreDen(gsim.genre_counter)
            /\ (\A i \in 1..Len(gsim.book_genres_str) :
                    StripLower(gsim.book_genres_str[i]) \notin Range(gsim.top_genres))
                 => gsim.genre_score = 0)
    /\ [][gsim.pc = "scored" => gsim'.genre_score >= gsim.genre_score]_vars

\* a candidate whose matching tokens sum to more than 3, with one more token that
\* the favorites have but that is not among the top 5
C10_Witness ==
    /\ gsim.pc = "scored"
    /\ Len(gsim.book_genres_str) = MaxTokens
    /\ GenreSum(GenreTokens(gsim.book_genres_str), gsim.top_genres, gsim.genre_counter)
           > GENRE_SCORE_CAP * GenreDen(gsim.genre_counter)
    /\ StripLower(gsim.book_genres_str[MaxTokens])
           \in CounterKeys(gsim.genre_counter) \ Range(gsim.top_genres)

(***************************************************************************)
(* Properties of the sub-scores.                                           *)
(***************************************************************************)
\* the favorites' ratings that are known
KnownRatings(ratings) == {i \in 1..Len(ratings) : ratings[i] # NULL}

\* the sum the mean preferred rating is taken of (4.0 when no rating is known)
RatingSumOf(ratings) ==
    IF KnownRatings(ratings) = {} THEN 40
    ELSE SumSeq([i \in 1..Len(ratings) |-> IF ratings[i] # NULL THEN ratings[i] ELSE 0])

RatingCountOf(ratings) ==
    IF KnownRatings(ratings) = {} THEN 1 ELSE Cardinality(KnownRatings(ratings))

\* C11: with the mean m of the favorites' known ratings (n of them, summing to s, so
\* m = s / n), rating_score of a candidate of rating x is max(0, 2 - |x - m|): 2 when
\* x = m, 0 when |x - m| >= 2, within [0, 2] always.  In tenths and times n:
\* score = max(0, 20 n - |x n - s|).
C11_RatingScoreFormula ==
    rsim.pc = "scored" =>
        LET n == RatingCountOf(rsim.ratings)
            s == RatingSumOf(rsim.ratings)
            gap == Abs(rsim.x * n - s)
        IN /\ rsim.rating_score = Max(0, 20 * n - gap)
           /\ rsim.x * n = s => rsim.rating_score = 20 * n
           /\ gap >= 20 * n => rsim.rating_score = 0
           /\ rsim.rating_score >= 0 /\ rsim.rating_score <= 20 * n

\* the candidate's rating is the mean of two different known ratings, and scores 2
C11_Witness ==
    /\ rsim.pc = "scored"
    /\ Len(rsim.ratings) = 2 /\ KnownRatings(rsim.ratings) = {1, 2}
    /\ rsim.ratings[1] < rsim.ratings[2]
    /\ rsim.x * 2 = rsim.ratings[1] + rsim.ratings[2]
    /\ rsim.rating_score = 40

\* the favorites of a call that are found in its catalog, as catalog rows
FoundFavorites(c) == {b \in Range(c.works_df) : b.work_id.val \in FavoriteVals(c)}

\* the identifiers written in a similar_books field: its tokens that are a decimal
\* number once trimmed
ListedIds(tokens) ==
    {DecimalValue[Strip(tokens[i])] :
        i \in {j \in 1..Len(tokens) : Strip(tokens[j]) \in DOMAIN DecimalValue}}

\* the calls that scored their candidates
ScoredCalls == {k \in 1..Len(calls) : Resolves(calls[k]) /\ ~ calls[k].raised}

\* C12 as claimed: a candidate's similarity_score is 3 when its identifier is written
\* in the similar_books field of some favorite found in the catalog, and 0 otherwise.
C12_SimilarityIffListed ==
    \A k \in ScoredCalls :
        LET c == calls[k]
            listed == UNION {ListedIds(b.similar_books) : b \in FoundFavorites(c)}
        IN \A i \in 1..Len(c.table) :
               c.table[i].scores.similarity_score
                   = IF c.table[i].work_id.val \in listed THEN 3 ELSE 0

\* the candidates of a call, as rows of its catalog
SurvivorRows(c) == {b \in Range(c.works_df) : b.work_id.val \in Survivors(c)}

\* C13: the seven weights are 0.35, 0.25, 0.20, 0.10, 0.05, 0.03 and 0.02 and sum to
\* exactly 1, and the final_score of every candidate before the noise is the sum of
\* its own seven sub-scores, each times its weight.  final_score is a numerator over
\* SCORE_UNIT * q, each sub-score a numerator over its own denominator dividing q.
C13_FinalScoreIsWeightedSum ==
    /\ <<W_SIMILARITY, W_GENRE, W_RATING, W_AUTHOR, W_YEAR, W_DIVERSITY, W_GENRE_BONUS>>
           = <<3500, 2500, 2000, 1000, 500, 300, 200>>
    /\ 3500 + 2500 + 2000 + 1000 + 500 + 300 + 200 = SCORE_UNIT
    /\ \A k \in ScoredCalls :
           LET c == calls[k]
               counts == {b.ratings_count : b \in SurvivorRows(c)}
               gd == IF c.profile.genre_counter = <<>> THEN 1
                     ELSE SetMax({c.profile.genre_counter[j][2] :
                                     j \in 1..Len(c.profile.genre_counter)})
               pr == IF Cardinality(counts) = 1 THEN 1 ELSE SetMax(counts) - SetMin(counts)
               rn == c.profile.rating_n
               yn == c.profile.year_n
               q == 20 * gd * rn * yn * pr
           IN \A i \in 1..Len(c.table) :
                  LET sc == c.table[i].scores
                  IN c.table[i].final_score =
                         100 * ( 35 * sc.similarity_score * q
                               + 25 * sc.genre_score * (q \div gd)
                               + 20 * sc.rating_score * (q \div (10 * rn))
                               + 10 * sc.author_score * (q \div 10)
                               + 5 * sc.year_score * (q \div (20 * yn))
                               + 3 * sc.diversity_bonus * (q \div (2 * pr))
                               + 2 * sc.diversity_genre_bonus * (q \div 10) )

\* a candidate all of whose seven sub-scores are positive, under a profile of two
\* favorites
C13_Witness ==
    \E k \in ScoredCalls :
        /\ Cardinality(FoundFavorites(calls[k])) = 2
        /\ \E i \in 1..Len(calls[k].table) :
               LET sc == calls[k].table[i].scores
               IN /\ sc.similarity_score > 0 /\ sc.genre_score > 0 /\ sc.rating_score > 0
                  /\ sc.author_score > 0 /\ sc.year_score > 0 /\ sc.diversity_bonus > 0
                  /\ sc.diversity_genre_bonus > 0

\* C17 as claimed: whatever unparsable tokens the similar_books fields hold, every
\* identifier written in the field of a favorite found in the catalog is in
\* similar_ids, and the unparsable tokens raise nothing.
C17_UnparsableTokenSkipped ==
    \A k \in 1..Len(calls) :
        LET c == calls[k]
        IN Resolves(c) =>
              /\ \A b \in FoundFavorites(c) :
                     ListedIds(b.similar_books)
                         \subseteq {id.val : id \in c.profile.similar_ids}
              /\ c.raised => Survivors(c) = {}

\* C14 as claimed: two calls on the same catalog and top_n whose favorites lists hold
\* the same identifiers in another order use the same seed and return the same list.
C14_SeedFromFavoriteSet ==
    \A j, k \in 1..Len(calls) :
        /\ calls[j].top_n = calls[k].top_n
        /\ ConvertWorkIds(calls[j].works_df) = ConvertWorkIds(calls[k].works_df)
        /\ \E p \in Permutations(1..Len(calls[j].favorites)) :
               calls[k].favorites = Reordered(calls[j].favorites, p)
        => /\ calls[j].seed = calls[k].seed
           /\ calls[j].rows = calls[k].rows

(***************************************************************************)
(* Properties of the preference profile.                                   *)
(***************************************************************************)
\* the catalog rows of the favorites, in catalog order and in the order of the list
FoundInCatalogOrder ==
    SelectRows(works_df, LAMBDA b : \E i \in 1..Len(favorites) : favorites[i].val = b.work_id.val)

FoundInListOrder ==
    Concat([i \in 1..Len(favorites) |->
               SelectRows(works_df, LAMBDA b : b.work_id.val = favorites[i].val)])

\* the trimmed, lowercased genre tokens, and the authors, as the rows give them
TokenStream(rows) == Concat([i \in 1..Len(rows) |-> GenreTokens(rows[i].genres)])
AuthorStream(rows) == [i \in 1..Len(rows) |-> rows[i].author]

Freq(stream, t) == Cardinality({i \in 1..Len(stream) : stream[i] = t})
FirstSeen(stream, t) == SetMin({i \in 1..Len(stream) : stream[i] = t})

\* a is ranked before b: more frequent, or as frequent and encountered first
Before(stream, a, b) ==
    \/ Freq(stream, a) > Freq(stream, b)
    \/ Freq(stream, a) = Freq(stream, b) /\ FirstSeen(stream, a) < FirstSeen(stream, b)

RankOf(stream, t) == Cardinality({u \in Range(stream) : Before(stream, u, t)}) + 1

\* the profile's top genres and top authors are the 5 and 3 first ranked of the streams
IsProfileOf(profile, rows) ==
    /\ Len(profile.top_genres) = Min(5, Cardinality(Range(TokenStream(rows))))
    /\ \A p \in 1..Len(profile.top_genres) :
           /\ profile.top_genres[p] \in Range(TokenStream(rows))
           /\ RankOf(TokenStream(rows), profile.top_genres[p]) = p
    /\ profile.top_authors =
           {a \in Range(AuthorStream(rows)) : RankOf(AuthorStream(rows), a) <= 3}

\* C16 as claimed: the top genres are the (at most) 5 most frequent trimmed, lowercased
\* tokens and the top authors the (at most) 3 most frequent authors of the favorites
\* found in the catalog, equal frequencies ranked by first encounter while going
\* through the favorites, in the order of the favorites list.
C16_TopByFavoritesListOrder ==
    prof.pc = "profile" => IsProfileOf(prof.profile, FoundInListOrder)

\* C16 as amended: the same, equal frequencies ranked by first encounter while going
\* through the favorites found in the catalog in the order of the catalog rows.
C16_TopByCatalogOrder ==
    prof.pc = "profile" => IsProfileOf(prof.profile, FoundInCatalogOrder)

\* four favorites listed in another order than the catalog's, with more than 5
\* distinct tokens and more than 3 distinct authors, where the order of the list would
\* have ranked otherwise
C16_Witness ==
    /\ prof.pc = "profile"
    /\ Len(favorites) = 4
    /\ FoundInListOrder # FoundInCatalogOrder
    /\ Cardinality(Range(TokenStream(FoundInCatalogOrder))) > 5
    /\ Cardinality(Range(AuthorStream(FoundInCatalogOrder))) > 3
    /\ ~ IsProfileOf(prof.profile, FoundInListOrder)

(***************************************************************************)
(* Properties of the randomization.                                        *)
(***************************************************************************)
\* the place of candidate i of the table by final_score before the noise: the number
\* of candidates with a higher score, or the same score and an earlier row, plus one
PlaceBeforeNoise(candidates, i) ==
    Cardinality({j \in 1..Len(candidates) :
        \/ candidates[j].final_score > candidates[i].final_score
        \/ candidates[j].final_score = candidates[i].final_score /\ j < i}) + 1

PoolIds(rows) == {rows[i].work_id : i \in 1..Len(rows)}

\* C18: every returned book is one of the first min(3 * top_n, 30) candidates by
\* final_score before the noise; the noise changes the scores of those candidates and
\* brings in no other; at most 30 books are returned whatever top_n and the number of
\* candidates.
C18_ReturnedFromTopPool ==
    /\ pool.pc \in {"perturbed", "selected"} =>
           PoolIds(pool.top_candidates) = PoolIds(pool.top)
    /\ pool.pc = "selected" =>
           /\ Len(pool.rows) <= 30
           /\ \A r \in 1..Len(pool.rows) :
                  \E i \in 1..Len(pool.candidates) :
                      /\ pool.candidates[i].work_id = pool.rows[r].work_id
                      /\ PlaceBeforeNoise(pool.candidates, i) <= Min(3 * pool.top_n, 30)

\* top_n above 30 and more than 30 candidates: 30 books are returned, one of them
\* with a score after the noise below the score of a candidate left out of the pool
C18_Witness ==
    /\ pool.pc = "selected"
    /\ pool.top_n > 30 /\ Len(pool.candidates) > 30 /\ Len(pool.rows) = 30
    /\ \E r \in 1..Len(pool.rows), i \in 1..Len(pool.candidates) :
           /\ pool.candidates[i].work_id \notin PoolIds(pool.rows)
           /\ pool.rows[r].final_score < pool.candidates[i].final_score

Displayed ==
    IF session.show_recommendations /\ session.recommendations # <<>>
    THEN SubSeq(session.recommendations[1], 1, Min(8, Len(session.recommendations[1])))
    ELSE <<>>

\* C20 as claimed: whenever recommendations are displayed they are what
\* get_recommendations gives for the favorites list as it is now, and no current
\* favorite is among them.
C20_DisplayedFromCurrentFavorites ==
    session.show_recommendations /\ session.recommendations # <<>> =>
        /\ session.recommendations[1]
               = get_recommendations(favorites, works_df, 10, np_random, hash_salt).rows
        /\ \A i \in 1..Len(Displayed), j \in 1..Len(favorites) :
               Displayed[i].work_id.val # favorites[j].val

(***************************************************************************)
(* Properties of load_dataset_safe.                                        *)
(***************************************************************************)
\* the attempts of the log that ended in a timeout or a network error
RetriedAttempts ==
    {i \in 1..Len(load.log) : load.log[i].handler \in {"Timeout", "RequestException"}}

\* C21: load_dataset_safe returns, after at most max_retries requests and without
\* raising: the table parsed from the first response that parses, else an empty table.
\* Every attempt before the last ended in a timeout or a network error; after such
\* an attempt it slept 2^attempt seconds when another attempt remained; an empty or
\* corrupt CSV or any other error was the last attempt.
C21_LoadReturnsWithinRetries ==
    /\ <>(load.pc = "returned")
    /\ [](load.pc # "none" =>
            /\ load.requests <= load.max_retries
            /\ load.requests <= Len(load.log) + 1
            /\ \A i \in 1..(Len(load.log) - 1) : i \in RetriedAttempts
            /\ load.pc = "returned" =>
                   LET n == Len(load.log)
                       parsed == n > 0 /\ load.log[n].handler = ""
                   IN /\ load.requests = n
                      /\ Len(load.result) = 1
                      /\ parsed => load.result[1] = [columns |-> Head(load.log[n].text),
                                                       rows |-> Tail(load.log[n].text)]
                      /\ ~ parsed => load.result[1] = [columns |-> "", rows |-> <<>>]
                      /\ RetriedAttempts = 1..n => n = load.max_retries
                      /\ load.slept =
                             [i \in 1..Min(Cardinality(RetriedAttempts), load.max_retries - 1)
                                 |-> 2 ^ (i - 1)])

\* three attempts allowed: a timeout, a network error, then a response that parses;
\* it slept 1 and 2 seconds
C21_Witness ==
    /\ load.pc = "returned" /\ load.max_retries = 3
    /\ Len(load.log) = 3
    /\ load.log[1].handler = "Timeout" /\ load.log[2].handler = "RequestException"
    /\ load.log[3].handler = ""
    /\ load.result = <<[columns |-> "work_id", rows |-> <<"1", "2">>]>>
    /\ load.slept = <<1, 2>>

====
